---- MODULE Spec2Model ----
(***************************************************************************)
(* Path ORAM simulator (path_oram_sim_py38.py): the bucket tree, the       *)
(* position map, the stash, the access protocol with read-path eviction,   *)
(* and the process-wide random source the engines share.                   *)
(*                                                                         *)
(* Python values are encoded as tuples so that any two of them can be      *)
(* compared: None is <<>>, the int k is <<k>>, the pair (a, v) is <<a, v>>.*)
(* A dict is the sequence of its (key, value) pairs in insertion order, a   *)
(* list of length n the function over 0..n-1.                              *)
(***************************************************************************)
EXTENDS Integers, Sequences, FiniteSets, TLC

\* ------------------------------------------------------------------ bounds
MaxN == 4
MaxZ == 2
MaxL == 2
MaxOps == 3
MaxWork == 6
MaxRec == 3
MaxSize == 3
MaxRamp == 12

\* the accesses an engine of n blocks is followed for: at most MaxOps, and two
\* fewer for every block beyond the first
OpsFor(n) == IF MaxWork - 2 * (n - 1) < MaxOps THEN MaxWork - 2 * (n - 1) ELSE MaxOps

Engines == {"A", "B"}
None == <<>>
PyInt(k) == <<k>>
Seeds == {PyInt(1)}
NewData == {PyInt(10)}

\* --------------------------------------------------------------- helpers
RECURSIVE Pow2(_)
Pow2(k) == IF k <= 0 THEN 1 ELSE 2 * Pow2(k - 1)

\* x >> k and 1 << k on non-negative ints
Shr(x, k) == x \div Pow2(k)

\* node_index(level, idx): flat array index of bucket (level, idx)
node_index(level, idx) == Pow2(level) - 1 + idx

\* path_nodes shifting by l instead of by L - l
path_nodes_ShiftByLevel(l_, leaf_x) ==
    [i \in 1..(l_ + 1) |-> <<i - 1, IF i - 1 > 0 THEN Shr(leaf_x, i - 1) ELSE 0>>]

\* path_nodes(L, leaf_x): the nodes from the root to leaf_x, root first
path_nodes(l_, leaf_x) ==
    [i \in 1..(l_ + 1) |-> <<i - 1, IF i - 1 > 0 THEN Shr(leaf_x, l_ - (i - 1)) ELSE 0>>]

\* same_subtree_at_level shifting by level instead of by L - level
same_subtree_ShiftByLevel(l_, leaf_a, leaf_b, level) ==
    IF level = 0 THEN TRUE
    ELSE Shr(leaf_a, level) = Shr(leaf_b, level)

\* same_subtree_at_level(L, leaf_a, leaf_b, level)
same_subtree_at_level(l_, leaf_a, leaf_b, level) ==
    IF level = 0 THEN TRUE
    ELSE Shr(leaf_a, l_ - level) = Shr(leaf_b, l_ - level)

\* ------------------------------------------------------ dict operations
Keys(d) == [i \in 1..Len(d) |-> d[i][1]]
KeySet(d) == {d[i][1] : i \in 1..Len(d)}
Has(d, k) == k \in KeySet(d)
IndexOf(d, k) == CHOOSE i \in 1..Len(d) : d[i][1] = k
\* d.get(k, dflt)
DictGet(d, k, dflt) == IF Has(d, k) THEN d[IndexOf(d, k)][2] ELSE dflt
\* d[k] = v: an existing key keeps its place, a new key goes last
DictSet(d, k, v) ==
    IF Has(d, k) THEN [d EXCEPT ![IndexOf(d, k)] = <<k, v>>]
    ELSE Append(d, <<k, v>>)
\* d.pop(k), the dict that remains
DictPop(d, k) ==
    LET i == IndexOf(d, k)
    IN  SubSeq(d, 1, i - 1) \o SubSeq(d, i + 1, Len(d))

\* ------------------------------------------------------- random source
\* The state of the process-wide generator is <<seed, hist>>: the seed it was
\* last seeded with (None: operating-system entropy) and the requests served
\* since. A request is <<"below", n>> (randrange(n), _randbelow(n)) or
\* <<"bits", 1>> (getrandbits(1)). What a seeded generator answers is a fixed
\* function of its state, unknown here: memo records the answers given so far
\* and an answer given once is given again. An unseeded generator's state
\* cannot be re-entered, so its answers are free and it is left as <<None, <<>>>>.
Below(n) == <<"below", n>>
Bits1 == <<"bits", 1>>
Range(req) == IF req[1] = "below" THEN req[2] ELSE 2

\* random.seed(seed) when seed is not None
Reseed(r, seed) == IF seed # None THEN <<seed, <<>>>> ELSE r

KeyAt(r, reqs, k) == <<r[1], r[2] \o SubSeq(reqs, 1, k)>>

RECURSIVE Outcomes(_)
Outcomes(reqs) ==
    IF reqs = <<>> THEN {<<>>}
    ELSE {<<v>> \o t : v \in 0..(Range(Head(reqs)) - 1), t \in Outcomes(Tail(reqs))}

\* vs are answers the generator in state r may give to the requests reqs
DrawOk(r, m, reqs, vs) ==
    \A k \in 1..Len(reqs) :
        (r[1] # None /\ KeyAt(r, reqs, k) \in DOMAIN m) => vs[k] = m[KeyAt(r, reqs, k)]

RngAfter(r, reqs) == IF r[1] = None THEN r ELSE <<r[1], r[2] \o reqs>>

MemoAfter(r, m, reqs, vs) ==
    IF r[1] = None THEN m
    ELSE LET new == {KeyAt(r, reqs, k) : k \in 1..Len(reqs)}
         IN  [key \in (DOMAIN m) \cup new |->
                IF key \in DOMAIN m THEN m[key]
                ELSE vs[CHOOSE k \in 1..Len(reqs) : KeyAt(r, reqs, k) = key]]

\* ----------------------------------------------------- engine, pure part
\* ParamsOk without (1 << L) >= N
ParamsOkNoFit(n, z, l_) == n > 0 /\ z > 0 /\ l_ >= 1

\* __init__: the three asserts
ParamsOk(n, z, l_) == n > 0 /\ z > 0 /\ (l_ >= 1 /\ Pow2(l_) >= n)

\* self.tree = [list() for _ in range(self.num_nodes)]
EmptyTree(l_) == [i \in 0..((Pow2(l_ + 1) - 1) - 1) |-> <<>>]

\* the requests of __init__: N positions, then random.shuffle of N items
PositionRequests(n, l_) == [i \in 1..n |-> Below(Pow2(l_))]
ShuffleRequests(n) == [i \in 1..(n - 1) |-> Below(n - i + 1)]

\* random.shuffle(x): for i in reversed(range(1, len(x))): j = randbelow(i+1); swap
RECURSIVE ShuffleFrom(_, _, _)
ShuffleFrom(xs, i, js) ==
    IF i < 1 THEN xs
    ELSE LET j == Head(js)
             sw == [xs EXCEPT ![i + 1] = xs[j + 1], ![j + 1] = xs[i + 1]]
         IN  ShuffleFrom(sw, i - 1, Tail(js))

Shuffle(n, js) == ShuffleFrom([i \in 1..n |-> i - 1], n - 1, js)

\* FirstRoom stopping above the root: for l in range(self.L, 0, -1)
RECURSIVE FirstRoomNoRoot(_, _, _, _, _)
FirstRoomNoRoot(tr, z, l_, leaf, lv) ==
    IF lv < 1 THEN 0 - 1
    ELSE LET idx == IF lv > 0 THEN Shr(leaf, l_ - lv) ELSE 0
         IN  IF Len(tr[node_index(lv, idx)]) < z THEN lv
             ELSE FirstRoomNoRoot(tr, z, l_, leaf, lv - 1)

\* FirstRoom taking the bucket with room nearest to the root: for l in range(0, self.L + 1)
FirstRoomShallow(tr, z, l_, leaf, lv) ==
    LET rooms == {k \in 0..l_ :
                     Len(tr[node_index(k, IF k > 0 THEN Shr(leaf, l_ - k) ELSE 0)]) < z}
    IN  IF rooms = {} THEN 0 - 1 ELSE CHOOSE k \in rooms : \A o \in rooms : k <= o

\* _initial_place_blocks, the inner loop: the deepest level on the path to
\* leaf with room, -1 when there is none
RECURSIVE FirstRoom(_, _, _, _, _)
FirstRoom(tr, z, l_, leaf, lv) ==
    IF lv < 0 THEN 0 - 1
    ELSE LET idx == IF lv > 0 THEN Shr(leaf, l_ - lv) ELSE 0
         IN  IF Len(tr[node_index(lv, idx)]) < z THEN lv
             ELSE FirstRoom(tr, z, l_, leaf, lv - 1)

\* _initial_place_blocks, one iteration of the outer loop, for block a
PlaceBlock(tr, st, pos, z, l_, a) ==
    LET leaf == pos[a]
        lv == FirstRoom(tr, z, l_, leaf, l_)
        idx == IF lv > 0 THEN Shr(leaf, l_ - lv) ELSE 0
    IN  IF lv >= 0
        THEN [tree |-> [tr EXCEPT ![node_index(lv, idx)] = Append(@, <<a, PyInt(a)>>)],
              stash |-> st]
        ELSE [tree |-> tr, stash |-> DictSet(st, a, PyInt(a))]

\* access: for (bid, bdata) in bucket: self.stash[bid] = bdata
RECURSIVE Absorb(_, _)
Absorb(st, bucket) ==
    IF bucket = <<>> THEN st
    ELSE Absorb(DictSet(st, Head(bucket)[1], Head(bucket)[2]), Tail(bucket))

\* ReadFrom without bucket.clear()
RECURSIVE ReadFromNoClear(_, _, _, _)
ReadFromNoClear(tr, st, nodes, i) ==
    IF i > Len(nodes) THEN [tree |-> tr, stash |-> st]
    ELSE LET ni == node_index(nodes[i][1], nodes[i][2])
         IN  ReadFromNoClear(tr, Absorb(st, tr[ni]), nodes, i + 1)

\* access: the path read, nodes[i..] still to read
RECURSIVE ReadFrom(_, _, _, _)
ReadFrom(tr, st, nodes, i) ==
    IF i > Len(nodes) THEN [tree |-> tr, stash |-> st]
    ELSE LET ni == node_index(nodes[i][1], nodes[i][2])
         IN  ReadFrom([tr EXCEPT ![ni] = <<>>], Absorb(st, tr[ni]), nodes, i + 1)

\* ReadPath stopping above the leaf: for l in range(0, L)
ReadPathNoLeaf(tr, st, l_, x) == ReadFrom(tr, st, SubSeq(path_nodes(l_, x), 1, l_), 1)

ReadPath(tr, st, l_, x) == ReadFrom(tr, st, path_nodes(l_, x), 1)

\* Serve with the write done by setdefault: a block already in the stash keeps its data
ServeSetDefault(st, o, a, d) ==
    [old |-> DictGet(st, a, PyInt(a)),
     stash |-> IF o = "write" /\ ~Has(st, a) THEN DictSet(st, a, d) ELSE st]

\* Serve with old_data read after the write
ServeReadAfterWrite(st, o, a, d) ==
    LET st2 == IF o = "write" THEN DictSet(st, a, d) ELSE st
    IN  [old |-> DictGet(st2, a, PyInt(a)), stash |-> st2]

\* access: old_data = self.stash.get(a, a); if op == "write": self.stash[a] = new_data
Serve(st, o, a, d) ==
    [old |-> DictGet(st, a, PyInt(a)),
     stash |-> IF o = "write" THEN DictSet(st, a, d) ELSE st]

\* access: the scan of the stash keys for one level
RECURSIVE ChooseFrom(_, _, _, _, _, _, _, _)
ChooseFrom(keys, i, chosen, pos, l_, x, lv, capacity) ==
    IF i > Len(keys) THEN chosen
    ELSE IF same_subtree_at_level(l_, pos[keys[i]], x, lv)
         THEN IF Len(chosen) + 1 = capacity THEN Append(chosen, keys[i])
              ELSE ChooseFrom(keys, i + 1, Append(chosen, keys[i]), pos, l_, x, lv, capacity)
         ELSE ChooseFrom(keys, i + 1, chosen, pos, l_, x, lv, capacity)

\* Chosen with the scan stopping one block late (if len(chosen) > capacity: break)
ChosenOneMore(st, pos, l_, x, lv, capacity) ==
    ChooseFrom(Keys(st), 1, <<>>, pos, l_, x, lv, capacity + 1)

\* Chosen taking one block per bucket at most (break after the first append)
ChosenFirstOnly(st, pos, l_, x, lv, capacity) ==
    ChooseFrom(Keys(st), 1, <<>>, pos, l_, x, lv, 1)

Chosen(st, pos, l_, x, lv, capacity) ==
    ChooseFrom(Keys(st), 1, <<>>, pos, l_, x, lv, capacity)

\* MoveChosen reading self.stash[bid] instead of popping it
RECURSIVE MoveChosenKeep(_, _, _, _)
MoveChosenKeep(tr, st, ni, chosen) ==
    IF chosen = <<>> THEN [tree |-> tr, stash |-> st]
    ELSE LET bid == Head(chosen)
         IN  MoveChosenKeep([tr EXCEPT ![ni] = Append(@, <<bid, DictGet(st, bid, None)>>)],
                            st, ni, Tail(chosen))

\* access: for bid in chosen: bucket.append((bid, self.stash.pop(bid)))
RECURSIVE MoveChosen(_, _, _, _)
MoveChosen(tr, st, ni, chosen) ==
    IF chosen = <<>> THEN [tree |-> tr, stash |-> st]
    ELSE LET bid == Head(chosen)
         IN  MoveChosen([tr EXCEPT ![ni] = Append(@, <<bid, DictGet(st, bid, None)>>)],
                        DictPop(st, bid), ni, Tail(chosen))

\* EvictNode taking the index from the right: idx = (1 << l) - 1 - (x >> (L - l))
EvictNodeMirror(l_, x, lv) ==
    node_index(lv, IF lv > 0 THEN (Pow2(lv) - 1) - Shr(x, l_ - lv) ELSE 0)

\* access: the bucket the eviction loop fetches for level lv of the path to x
EvictNode(l_, x, lv) == node_index(lv, IF lv > 0 THEN Shr(x, l_ - lv) ELSE 0)

\* access: one iteration of the eviction loop, for level lv of the path to x
EvictLevel(tr, st, pos, z, l_, x, lv) ==
    LET ni == EvictNode(l_, x, lv)
    IN  IF Len(tr[ni]) >= z THEN [tree |-> tr, stash |-> st]
        ELSE MoveChosen(tr, st, ni, Chosen(st, pos, l_, x, lv, z - Len(tr[ni])))

\* AccessPre without the assert on op
AccessPreAnyOp(n, o, a) == 0 <= a /\ a < n

\* Resample leaving the position map as it was
ResampleKeep(pos, b, v) == pos

\* access: self.position[a] = random.randrange(self.leaf_space), v the leaf drawn
Resample(pos, b, v) == [pos EXCEPT ![b] = v]

\* access: the two asserts
AccessPre(n, o, a) == (0 <= a /\ a < n) /\ o \in {"read", "write"}

\* simulate: the assert
SimulatePre(total_ops, warmup_ops) == total_ops > warmup_ops /\ warmup_ops >= 0

\* str(k) for an int k, as the sequence of its characters
RECURSIVE Digits(_)
Digits(k) ==
    IF k < 10 THEN <<<<"0", "1", "2", "3", "4", "5", "6", "7", "8", "9">>[k + 1]>>
    ELSE Digits(k \div 10) \o Digits(k % 10)

Str(k) == IF k < 0 THEN <<"-">> \o Digits(0 - k) ELSE Digits(k)

\* ------------------------------------------------------------------ state
VARIABLES
    N, Z, L,            \* per engine: the parameters
    tree,               \* per engine: the flat list of buckets, each a list of (bid, data)
    position,           \* per engine: the position map
    stash,              \* per engine: the stash, a dict
    made,               \* the engines whose construction has returned
    rng, memo,          \* the module-level generator of random, and its answers so far
    pc,                 \* where the (single) thread is
    self,               \* the engine the running call is on
    caller,             \* "top": access was called directly; "sim": by simulate
    call,               \* the running or last top-level call: <<function, engine, arguments>>
    ret,                \* how the last top-level call ended
    order,              \* _initial_place_blocks: the blocks still to place
    op, a, new_data,    \* access: the arguments
    x, old_data, l,     \* access: the locals
    sim,                \* simulate: arguments and locals
    out_file,           \* the text of the statistics file, None when not written
    nops,               \* per engine: access calls made
    pre,                \* the engine and generator as the innermost call found them
    drawn,              \* the generator's answers to the running or last call
    trace,              \* the flat indices of the buckets the access fetched via _bucket
    written,            \* per engine and block: <<v, k>> when the last write to it was of v,
                        \* by the engine's k-th access; <<>> when it was never written
    obs                 \* per observed engine: its top-level calls with their results

eng == <<N, Z, L, tree, position, stash>>
frame == <<op, a, new_data, x, old_data, l>>
vars == <<N, Z, L, tree, position, stash, made, rng, memo, pc, self, caller, call, ret,
          order, op, a, new_data, x, old_data, l, sim, out_file, nops, pre, drawn,
          trace, written, obs>>

NoRet == <<"none">>
Return(v) == <<"return", v>>
Raise(exc) == <<"raise", exc>>

Snapshot(e) ==
    [params |-> <<N[e], Z[e], L[e]>>, tree |-> tree[e], position |-> position[e],
     stash |-> stash[e], rng |-> rng, memo |-> memo]

NoPre ==
    [params |-> <<0, 0, 0>>, tree |-> <<>>, position |-> <<>>, stash |-> <<>>,
     rng |-> <<None, <<>>>>, memo |-> <<>>]

NoSim ==
    [total_ops |-> 0, warmup_ops |-> 0, versions |-> <<>>, recorded_stash_sizes |-> <<>>,
     block |-> 0, t |-> 0, record_file |-> None]

\* the transcript of an observed engine grows by one entry per top-level call
Observe(e, entry) == IF e \in DOMAIN obs THEN [obs EXCEPT ![e] = Append(@, entry)] ELSE obs

\* the call as the transcript records it: the function and its arguments
CallSig(c) == [fn |-> c[1], args |-> SubSeq(c, 3, Len(c))]

InitWith(observed) ==
    /\ N = [e \in Engines |-> 0]
    /\ Z = [e \in Engines |-> 0]
    /\ L = [e \in Engines |-> 0]
    /\ tree = [e \in Engines |-> <<>>]
    /\ position = [e \in Engines |-> <<>>]
    /\ stash = [e \in Engines |-> <<>>]
    /\ made = {}
    /\ rng = <<None, <<>>>>
    /\ memo = <<>>
    /\ pc = "idle"
    /\ self = "A"
    /\ caller = "top"
    /\ call = <<"none">>
    /\ ret = NoRet
    /\ order = <<>>
    /\ op = "read"
    /\ a = 0
    /\ new_data = None
    /\ x = 0
    /\ old_data = None
    /\ l = 0
    /\ sim = NoSim
    /\ out_file = None
    /\ nops = [e \in Engines |-> 0]
    /\ pre = NoPre
    /\ drawn = <<>>
    /\ trace = {}
    /\ written = [e \in Engines |-> <<>>]
    /\ obs = [e \in observed |-> <<>>]

Init == InitWith({})

\* ------------------------------------------------------------ __init__
\* PathORAM(n, z, l0, seed) with parameters the asserts reject
ConstructFail(e, n, z, l0, seed) ==
    /\ pc = "idle"
    /\ e \notin made
    /\ ~ParamsOk(n, z, l0)
    /\ call' = <<"__init__", e, n, z, l0, seed>>
    /\ ret' = Raise("AssertionError")
    /\ self' = e
    /\ pre' = Snapshot(e)
    /\ drawn' = <<>>
    /\ trace' = {}
    /\ pc' = "returned"
    /\ UNCHANGED <<eng, made, rng, memo, caller, order, frame, sim, out_file, nops,
                   written, obs>>

\* PathORAM(n, z, l0, seed): __init__ up to the shuffle of _initial_place_blocks
Construct(e, n, z, l0, seed) ==
    /\ pc = "idle"
    /\ e \notin made
    /\ ParamsOk(n, z, l0)
    /\ LET r0 == Reseed(rng, seed)
           reqs == PositionRequests(n, l0) \o ShuffleRequests(n)
       IN  \E vs \in Outcomes(reqs) :
             /\ DrawOk(r0, memo, reqs, vs)
             /\ rng' = RngAfter(r0, reqs)
             /\ memo' = MemoAfter(r0, memo, reqs, vs)
             /\ position' = [position EXCEPT ![e] = [i \in 0..(n - 1) |-> vs[i + 1]]]
             /\ order' = Shuffle(n, SubSeq(vs, n + 1, Len(vs)))
             /\ drawn' = vs
    /\ N' = [N EXCEPT ![e] = n]
    /\ Z' = [Z EXCEPT ![e] = z]
    /\ L' = [L EXCEPT ![e] = l0]
    /\ tree' = [tree EXCEPT ![e] = EmptyTree(l0)]
    /\ stash' = [stash EXCEPT ![e] = <<>>]
    /\ written' = [written EXCEPT ![e] = [i \in 0..(n - 1) |-> <<>>]]
    /\ call' = <<"__init__", e, n, z, l0, seed>>
    /\ ret' = NoRet
    /\ self' = e
    /\ pre' = Snapshot(e)
    /\ trace' = {}
    /\ pc' = "place"
    /\ UNCHANGED <<made, caller, frame, sim, out_file, nops, obs>>

\* _initial_place_blocks: one iteration of "for a in order"; __init__ returns after the last
Place ==
    /\ pc = "place"
    /\ LET res == PlaceBlock(tree[self], stash[self], position[self], Z[self], L[self],
                             Head(order))
       IN  /\ tree' = [tree EXCEPT ![self] = res.tree]
           /\ stash' = [stash EXCEPT ![self] = res.stash]
           /\ order' = Tail(order)
           /\ IF Tail(order) = <<>>
              THEN /\ pc' = "returned"
                   /\ made' = made \cup {self}
                   /\ ret' = Return(None)
                   /\ obs' = Observe(self, [call |-> CallSig(call), ret |-> None,
                                            size |-> Len(res.stash), drawn |-> drawn])
              ELSE UNCHANGED <<pc, made, ret, obs>>
    /\ UNCHANGED <<N, Z, L, position, rng, memo, self, caller, call, frame, sim, out_file,
                   nops, pre, drawn, trace, written>>

\* the caller takes the result of the call that returned (or catches what it
\* raised) and is ready for its next call: the frame of the call is gone
Resume ==
    /\ pc = "returned"
    /\ pc' = "idle"
    /\ self' = "A"
    /\ caller' = "top"
    /\ call' = <<"none">>
    /\ ret' = NoRet
    /\ order' = <<>>
    /\ op' = "read"
    /\ a' = 0
    /\ new_data' = None
    /\ x' = 0
    /\ old_data' = None
    /\ l' = 0
    /\ sim' = NoSim
    /\ pre' = NoPre
    /\ drawn' = <<>>
    /\ trace' = {}
    /\ UNCHANGED <<eng, made, rng, memo, out_file, nops, written, obs>>

\* -------------------------------------------------------------- access
PathIndices(l_, leaf) ==
    {node_index(path_nodes(l_, leaf)[i][1], path_nodes(l_, leaf)[i][2]) : i \in 1..(l_ + 1)}

\* access(o, b, d) on e with parameters the asserts reject
AccessFail(e, o, b, d) ==
    /\ pc = "idle"
    /\ e \in made
    /\ ~AccessPre(N[e], o, b)
    /\ call' = <<"access", e, o, b, d>>
    /\ ret' = Raise("AssertionError")
    /\ self' = e
    /\ pre' = Snapshot(e)
    /\ drawn' = <<>>
    /\ trace' = {}
    /\ pc' = "returned"
    /\ UNCHANGED <<eng, made, rng, memo, caller, order, frame, sim, out_file, nops,
                   written, obs>>

\* access(o, b, d) on e, from the asserts to the end of the path read; the
\* generator is in state r with answers m, and dr are the answers the caller drew
Enter(e, o, b, d, r, m, dr) ==
    /\ AccessPre(N[e], o, b)
    /\ LET leaf_space == Pow2(L[e])
           req == <<Below(leaf_space)>>
           rp == ReadPath(tree[e], stash[e], L[e], position[e][b])
       IN  /\ \E v \in 0..(leaf_space - 1) :
                /\ DrawOk(r, m, req, <<v>>)
                /\ rng' = RngAfter(r, req)
                /\ memo' = MemoAfter(r, m, req, <<v>>)
                /\ position' = [position EXCEPT ![e] = Resample(@, b, v)]
                /\ drawn' = Append(dr, v)
           /\ x' = position[e][b]
           /\ tree' = [tree EXCEPT ![e] = rp.tree]
           /\ stash' = [stash EXCEPT ![e] = rp.stash]
           /\ trace' = PathIndices(L[e], position[e][b])
    /\ op' = o
    /\ a' = b
    /\ new_data' = d
    /\ old_data' = None
    /\ l' = L[e]
    /\ self' = e
    /\ pre' = Snapshot(e)
    /\ nops' = [nops EXCEPT ![e] = @ + 1]
    /\ pc' = "service"
    /\ UNCHANGED <<N, Z, L, made, order, out_file, written, obs>>

\* a direct call of access(o, b, d) on e
Access(e, o, b, d) ==
    /\ pc = "idle"
    /\ e \in made
    /\ Enter(e, o, b, d, rng, memo, <<>>)
    /\ caller' = "top"
    /\ call' = <<"access", e, o, b, d>>
    /\ ret' = NoRet
    /\ UNCHANGED sim

\* access: old_data = self.stash.get(a, a) and the write
Service ==
    /\ pc = "service"
    /\ LET sv == Serve(stash[self], op, a, new_data)
       IN  /\ old_data' = sv.old
           /\ stash' = [stash EXCEPT ![self] = sv.stash]
    /\ written' = IF op = "write" THEN [written EXCEPT ![self][a] = <<new_data, nops[self]>>]
                  ELSE written
    /\ l' = L[self]
    /\ pc' = "evict"
    /\ UNCHANGED <<N, Z, L, tree, position, made, rng, memo, self, caller, call, ret, order,
                   op, a, new_data, x, sim, out_file, nops, pre, drawn, trace, obs>>

\* access: one iteration of the eviction loop; after level 0, return old_data
Evict ==
    /\ pc = "evict"
    /\ LET ev == EvictLevel(tree[self], stash[self], position[self], Z[self], L[self], x, l)
       IN  /\ tree' = [tree EXCEPT ![self] = ev.tree]
           /\ stash' = [stash EXCEPT ![self] = ev.stash]
           /\ trace' = trace \cup {EvictNode(L[self], x, l)}
           /\ IF l > 0
              THEN /\ l' = l - 1
                   /\ UNCHANGED <<pc, ret, obs>>
              ELSE /\ l' = l
                   /\ IF caller = "top"
                      THEN /\ pc' = "returned"
                           /\ ret' = Return(old_data)
                           /\ obs' = Observe(self, [call |-> CallSig(call), ret |-> old_data,
                                                    size |-> Len(ev.stash), drawn |-> drawn])
                      ELSE /\ pc' = "simrec"
                           /\ UNCHANGED <<ret, obs>>
    /\ UNCHANGED <<N, Z, L, position, made, rng, memo, self, caller, call, order, op, a,
                   new_data, x, old_data, sim, out_file, nops, pre, drawn, written>>

\* ------------------------------------------------------------ simulate
RECURSIVE MaxOf(_)
MaxOf(xs) ==
    IF Len(xs) = 1 THEN xs[1]
    ELSE LET m == MaxOf(Tail(xs)) IN IF xs[1] > m THEN xs[1] ELSE m

\* hist[val] += 1 for val in recorded_stash_sizes
Hist(rec, max_stash) ==
    [k \in 0..max_stash |-> Cardinality({i \in 1..Len(rec) : rec[i] = k})]

\* running += hist[k]; suffix_ge[k] = running, for k from max_stash down to 0
RECURSIVE Running(_, _, _)
Running(hist, k, max_stash) ==
    IF k > max_stash THEN 0 ELSE hist[k] + Running(hist, k + 1, max_stash)

SuffixGe(hist, max_stash) ==
    [k \in 0..(max_stash + 1) |-> IF k <= max_stash THEN Running(hist, k, max_stash) ELSE 0]

\* TailCounts counting the samples >= i: tail_counts[i] = suffix_ge[i]
TailCountsGe(rec) ==
    LET max_stash == IF rec # <<>> THEN MaxOf(rec) ELSE 0
        suffix_ge == SuffixGe(Hist(rec, max_stash), max_stash)
    IN  [i \in 0..max_stash |-> suffix_ge[i]]

\* tail_counts[i] = suffix_ge[i + 1] if (i + 1) <= max_stash else 0
TailCounts(rec) ==
    LET max_stash == IF rec # <<>> THEN MaxOf(rec) ELSE 0
        suffix_ge == SuffixGe(Hist(rec, max_stash), max_stash)
    IN  [i \in 0..max_stash |-> IF i + 1 <= max_stash THEN suffix_ge[i + 1] ELSE 0]

\* str(k) for an int k, then parsed back by int(): the value of a digit
\* character, of a run of digits, and of a run with an optional sign
DigitVal(c) ==
    CHOOSE d \in 0..9 : <<"0", "1", "2", "3", "4", "5", "6", "7", "8", "9">>[d + 1] = c

RECURSIVE ParseNat(_)
ParseNat(cs) ==
    IF Len(cs) = 1 THEN DigitVal(cs[1])
    ELSE 10 * ParseNat(SubSeq(cs, 1, Len(cs) - 1)) + DigitVal(cs[Len(cs)])

\* int(s) for s made of an optional "-" and digits
ParseInt(cs) == IF cs[1] = "-" THEN 0 - ParseNat(Tail(cs)) ELSE ParseNat(cs)

RECURSIVE Concat(_)
Concat(ss) == IF ss = <<>> THEN <<>> ELSE Head(ss) \o Concat(Tail(ss))

\* FileLines writing the count before the threshold: f"{tail_counts[i]},{i}\n"
FileLinesSwapped(rec) ==
    LET max_stash == IF rec # <<>> THEN MaxOf(rec) ELSE 0
        tail_counts == TailCounts(rec)
    IN  <<Str(0 - 1) \o <<",">> \o Str(Len(rec)) \o <<"\n">>>> \o
        [j \in 1..(max_stash + 1) |->
            Str(tail_counts[j - 1]) \o <<",">> \o Str(j - 1) \o <<"\n">>]

\* the strings simulate writes, one f.write each: f"-1,{s}\n" and
\* f"{i},{tail_counts[i]}\n" for i in range(0, max_stash + 1)
FileLines(rec) ==
    LET max_stash == IF rec # <<>> THEN MaxOf(rec) ELSE 0
        tail_counts == TailCounts(rec)
    IN  <<Str(0 - 1) \o <<",">> \o Str(Len(rec)) \o <<"\n">>>> \o
        [j \in 1..(max_stash + 1) |->
            Str(j - 1) \o <<",">> \o Str(tail_counts[j - 1]) \o <<"\n">>]

\* the text of the file after the writes
FileText(rec) == Concat(FileLines(rec))

\* ------------------------------------------ read_simulation_file
\* for line in f: the lines of the text, each with its "\n" (the last one
\* without, if the text does not end with one)
RECURSIVE LinesFrom(_, _, _)
LinesFrom(text, i, cur) ==
    IF i > Len(text) THEN (IF cur = <<>> THEN <<>> ELSE <<cur>>)
    ELSE IF text[i] = "\n" THEN <<Append(cur, text[i])>> \o LinesFrom(text, i + 1, <<>>)
         ELSE LinesFrom(text, i + 1, Append(cur, text[i]))

Lines(text) == LinesFrom(text, 1, <<>>)

Whitespace == {" ", "\n", "\t", "\r"}

\* line.strip()
RECURSIVE Strip(_)
Strip(cs) ==
    IF cs = <<>> THEN cs
    ELSE IF Head(cs) \in Whitespace THEN Strip(Tail(cs))
    ELSE IF cs[Len(cs)] \in Whitespace THEN Strip(SubSeq(cs, 1, Len(cs) - 1))
    ELSE cs

\* line.split(',')
RECURSIVE SplitFrom(_, _, _)
SplitFrom(cs, i, cur) ==
    IF i > Len(cs) THEN <<cur>>
    ELSE IF cs[i] = "," THEN <<cur>> \o SplitFrom(cs, i + 1, <<>>)
         ELSE SplitFrom(cs, i + 1, Append(cur, cs[i]))

Split(cs) == SplitFrom(cs, 1, <<>>)

\* parts[0].startswith('-1')
StartsWithMinus1(cs) == Len(cs) >= 2 /\ cs[1] = "-" /\ cs[2] = "1"

\* the loop over the lines: acc is <<total_accesses, tail_counts>>
RECURSIVE ReadLines(_, _, _)
ReadLines(lines, i, acc) ==
    IF i > Len(lines) THEN acc
    ELSE LET line == Strip(lines[i])
             parts == Split(line)
         IN  IF line = <<>> THEN ReadLines(lines, i + 1, acc)
             ELSE IF StartsWithMinus1(parts[1])
                  THEN ReadLines(lines, i + 1, <<PyInt(ParseInt(parts[2])), acc[2]>>)
                  ELSE ReadLines(lines, i + 1,
                                 <<acc[1], DictSet(acc[2], ParseInt(parts[1]),
                                                   ParseInt(parts[2]))>>)

\* read_simulation_file(path), for a file with the given text
read_simulation_file(text) ==
    LET acc == ReadLines(Lines(text), 1, <<None, <<>>>>)
    IN  IF acc[1] = None THEN Raise("ValueError")
        ELSE Return(<<acc[1][1], acc[2]>>)

\* simulate(total_ops, warmup_ops, record_file) with arguments the assert rejects
SimulateFail(e, total_ops, warmup_ops, record_file) ==
    /\ pc = "idle"
    /\ e \in made
    /\ ~SimulatePre(total_ops, warmup_ops)
    /\ call' = <<"simulate", e, total_ops, warmup_ops, record_file>>
    /\ ret' = Raise("AssertionError")
    /\ self' = e
    /\ pre' = Snapshot(e)
    /\ drawn' = <<>>
    /\ trace' = {}
    /\ pc' = "returned"
    /\ UNCHANGED <<eng, made, rng, memo, caller, order, frame, sim, out_file, nops,
                   written, obs>>

\* simulate(total_ops, warmup_ops, record_file): up to the loop
Simulate(e, total_ops, warmup_ops, record_file) ==
    /\ pc = "idle"
    /\ e \in made
    /\ SimulatePre(total_ops, warmup_ops)
    /\ sim' = [total_ops |-> total_ops, warmup_ops |-> warmup_ops,
               versions |-> [i \in 0..(N[e] - 1) |-> 0], recorded_stash_sizes |-> <<>>,
               block |-> 0, t |-> 0, record_file |-> record_file]
    /\ call' = <<"simulate", e, total_ops, warmup_ops, record_file>>
    /\ ret' = NoRet
    /\ self' = e
    /\ caller' = "sim"
    /\ pre' = Snapshot(e)
    /\ drawn' = <<>>
    /\ trace' = {}
    /\ pc' = "sim"
    /\ UNCHANGED <<eng, made, rng, memo, order, frame, out_file, nops, written, obs>>

\* simulate: block += 1; if block == self.N: block = 0
NextBlock(block, n) == IF block + 1 = n THEN 0 ELSE block + 1

\* RecordSize recording from t > warmup_ops on
RecordSizeLate(rec, t, warmup_ops, size) ==
    IF t > warmup_ops THEN Append(rec, size) ELSE rec

\* simulate: if t >= warmup_ops: recorded_stash_sizes.append(len(self.stash))
RecordSize(rec, t, warmup_ops, size) ==
    IF t >= warmup_ops THEN Append(rec, size) ELSE rec

\* simulate: one iteration of the loop, down to the path read of the access it calls
SimIter ==
    /\ pc = "sim"
    /\ \E bit \in 0..1 :
         /\ DrawOk(rng, memo, <<Bits1>>, <<bit>>)
         /\ LET o == IF bit # 0 THEN "write" ELSE "read"
                b == sim.block
                ver == IF o = "write" THEN [sim.versions EXCEPT ![b] = @ + 1]
                       ELSE sim.versions
            IN  /\ sim' = [sim EXCEPT !.block = NextBlock(b, N[self]),
                                      !.versions = ver]
                /\ Enter(self, o, b, IF o = "write" THEN <<b, ver[b]>> ELSE None,
                         RngAfter(rng, <<Bits1>>), MemoAfter(rng, memo, <<Bits1>>, <<bit>>),
                         <<bit>>)
    /\ UNCHANGED <<caller, call, ret>>

\* simulate: after the access returned, record the stash size and go round
SimRecord ==
    /\ pc = "simrec"
    /\ sim' = [sim EXCEPT !.recorded_stash_sizes =
                              RecordSize(@, sim.t, sim.warmup_ops, Len(stash[self])),
                          !.t = @ + 1]
    /\ pc' = IF sim.t + 1 < sim.total_ops THEN "sim" ELSE "simpost"
    /\ UNCHANGED <<eng, made, rng, memo, self, caller, call, ret, order, frame, out_file,
                   nops, pre, drawn, trace, written, obs>>

\* simulate: the tail counts, the statistics file and the return
SimFinish ==
    /\ pc = "simpost"
    /\ LET rec == sim.recorded_stash_sizes
           max_stash == IF rec # <<>> THEN MaxOf(rec) ELSE 0
           res == <<TailCounts(rec), max_stash, Len(rec)>>
       IN  /\ ret' = Return(res)
           /\ out_file' = IF sim.record_file # None THEN FileText(rec) ELSE out_file
           /\ obs' = Observe(self, [call |-> CallSig(call), ret |-> res,
                                    size |-> Len(stash[self]), drawn |-> drawn])
    /\ pc' = "returned"
    /\ UNCHANGED <<eng, made, rng, memo, self, caller, call, order, frame, sim, nops, pre,
                   drawn, trace, written>>

\* ------------------------------------------------------- specifications
SeedArgs == {None} \cup Seeds
BadAccessArgs(n) ==
    {<<"read", 0 - 1, None>>, <<"read", n, None>>, <<"delete", 0, None>>} \cup
    {<<"write", n, d>> : d \in NewData}

AccessArgs(n) ==
    {<<"read", b, None>> : b \in 0..(n - 1)} \cup
    {<<"write", b, d>> : b \in 0..(n - 1), d \in NewData}

SimArgs == (0..MaxOps) \X ((0 - 1)..MaxOps) \X {None, <<"out">>}

\* one engine, constructed unseeded and then accessed directly or, when fresh
\* (as in main), driven by a simulate of one operation
Next ==
    \E e \in {"A"} :
        \/ \E n \in (0 - 1)..MaxN, z \in 0..MaxZ, l0 \in 0..MaxL, seed \in SeedArgs :
               ConstructFail(e, n, z, l0, seed)
        \/ \E n \in (0 - 1)..MaxN, z \in 0..MaxZ, l0 \in 0..MaxL :
               Construct(e, n, z, l0, None)
        \/ Place
        \/ \E args \in BadAccessArgs(N[e]) \cup AccessArgs(N[e]) :
               AccessFail(e, args[1], args[2], args[3])
        \/ \E args \in BadAccessArgs(N[e]) \cup AccessArgs(N[e]) :
               nops[e] < OpsFor(N[e]) /\ Access(e, args[1], args[2], args[3])
        \/ Service
        \/ Evict
        \/ \E total_ops \in 0..1, warmup_ops \in (0 - 1)..1 :
               SimulateFail(e, total_ops, warmup_ops, None)
        \/ \E total_ops \in 0..1, warmup_ops \in (0 - 1)..1 :
               /\ nops[e] = 0
               /\ total_ops <= OpsFor(N[e])
               /\ Simulate(e, total_ops, warmup_ops, None)
        \/ SimIter
        \/ SimRecord
        \/ SimFinish
        \/ Resume

Spec == Init /\ [][Next]_vars

\* main(): one engine, constructed and then driven by simulate
NextSim ==
    \E e \in {"A"} :
        \/ \E n \in 1..MaxN, z \in 1..MaxZ, l0 \in 1..MaxL :
               OpsFor(n) >= 1 /\ Construct(e, n, z, l0, None)
        \/ Place
        \/ \E total_ops \in 0..1, warmup_ops \in (0 - 1)..1 :
               nops[e] = 0 /\ SimulateFail(e, total_ops, warmup_ops, None)
        \/ \E args \in SimArgs :
               /\ nops[e] = 0
               /\ args[1] <= OpsFor(N[e])
               /\ Simulate(e, args[1], args[2], args[3])
        \/ SimIter
        \/ Service
        \/ Evict
        \/ SimRecord
        \/ SimFinish
        \/ Resume

SpecSim == Init /\ [][NextSim]_vars

\* the post-processing of simulate as a function of what the loop recorded: it
\* reads recorded_stash_sizes and record_file and nothing of the engine, so the
\* recorded sizes are drawn here, the short sequences over 0..MaxSize and the
\* ramps 0, 1, ..., k - 1 (two-digit thresholds and counts), and simulate is
\* taken up after its loop
RecordedInputs ==
    UNION {[1..k -> 0..MaxSize] : k \in 1..MaxRec} \cup
    {[i \in 1..k |-> i - 1] : k \in 1..MaxRamp}

InitTail ==
    \E rec \in RecordedInputs, record_file \in {None, <<"out">>} :
        /\ N = [e \in Engines |-> 0]
        /\ Z = [e \in Engines |-> 0]
        /\ L = [e \in Engines |-> 0]
        /\ tree = [e \in Engines |-> <<>>]
        /\ position = [e \in Engines |-> <<>>]
        /\ stash = [e \in Engines |-> <<>>]
        /\ made = {}
        /\ rng = <<None, <<>>>>
        /\ memo = <<>>
        /\ pc = "simpost"
        /\ self = "A"
        /\ caller = "sim"
        /\ call = <<"simulate", "A", Len(rec), 0, record_file>>
        /\ ret = NoRet
        /\ order = <<>>
        /\ op = "read"
        /\ a = 0
        /\ new_data = None
        /\ x = 0
        /\ old_data = None
        /\ l = 0
        /\ sim = [total_ops |-> Len(rec), warmup_ops |-> 0, versions |-> <<>>,
                  recorded_stash_sizes |-> rec, block |-> 0, t |-> Len(rec),
                  record_file |-> record_file]
        /\ out_file = None
        /\ nops = [e \in Engines |-> 0]
        /\ pre = NoPre
        /\ drawn = <<>>
        /\ trace = {}
        /\ written = [e \in Engines |-> <<>>]
        /\ obs = <<>>

NextTail == SimFinish \/ Resume

SpecTail == InitTail /\ [][NextTail]_vars

\* two engines of two blocks, both seeded, their calls interleaved at will;
\* B is given the calls A was given, in the same order
TwoOps == 2
NextTwo ==
    \/ \E seed \in Seeds : Construct("A", 2, 1, 1, seed)
    \/ \E seed \in Seeds : Construct("B", 2, 1, 1, seed)
    \/ Place
    \/ \E args \in AccessArgs(N["A"]) :
           nops["A"] < TwoOps /\ Access("A", args[1], args[2], args[3])
    \/ \E args \in AccessArgs(N["B"]) :
           /\ Len(obs["B"]) < Len(obs["A"])
           /\ obs["A"][Len(obs["B"]) + 1].call.fn = "access"
           /\ obs["A"][Len(obs["B"]) + 1].call.args = args
           /\ Access("B", args[1], args[2], args[3])
    \/ Service
    \/ Evict
    \/ Resume

SpecTwo == InitWith({"A", "B"}) /\ [][NextTwo]_vars

\* ------------------------------------------------------------ properties
\* e is between two accesses: constructed, and no call on it is under way
\* (simulate counts as between accesses except while its access runs)
Quiescent(e) ==
    e \in made /\ (self # e \/ pc \in {"idle", "returned", "sim", "simrec", "simpost"})

\* an access has just returned: to its direct caller, or to simulate
AccessDone ==
    \/ pc = "returned" /\ call[1] = "access" /\ ret[1] = "return"
    \/ pc = "simrec"

\* the places (bucket, slot) of the tree tr and the slots of the stash st that hold block b
TreePlaces(tr, b) ==
    UNION {{<<n, i>> : i \in {j \in 1..Len(tr[n]) : tr[n][j][1] = b}} : n \in DOMAIN tr}
StashPlaces(st, b) == {i \in 1..Len(st) : st[i][1] = b}

IdsIn(tr, st) ==
    UNION {{tr[n][i][1] : i \in 1..Len(tr[n])} : n \in DOMAIN tr} \cup KeySet(st)

\* the data stored with block b, wherever it is
DataIn(tr, st, b) ==
    {tr[p[1]][p[2]][2] : p \in TreePlaces(tr, b)} \cup {st[i][2] : i \in StashPlaces(st, b)}

\* C1: conservation. In every state between two accesses (right after
\* construction, after every access) the block ids in the buckets and the
\* stash keys are exactly 0..N-1, and each id is in exactly one place.
C1_Conservation ==
    \A e \in made :
        Quiescent(e) =>
            /\ IdsIn(tree[e], stash[e]) = 0..(N[e] - 1)
            /\ \A b \in 0..(N[e] - 1) :
                   Cardinality(TreePlaces(tree[e], b)) + Cardinality(StashPlaces(stash[e], b)) = 1

\* an access returned leaving blocks both in the root bucket and in the stash
C1_Witness ==
    /\ pc = "returned" /\ call[1] = "access" /\ ret[1] = "return"
    /\ stash[self] # <<>>
    /\ tree[self][0] # <<>>

\* C2: capacity. In every state, those inside construction and inside an
\* access included, every bucket holds at most Z pairs.
C2_Capacity ==
    \A e \in Engines : \A n \in DOMAIN tree[e] : Len(tree[e][n]) <= Z[e]

\* inside an access, the eviction loop has filled a bucket and a block that the
\* root would take is still in the stash
C2_Witness ==
    /\ pc = "evict"
    /\ \E n \in DOMAIN tree[self] : n # 0 /\ Len(tree[self][n]) = Z[self] /\ n \in trace
    /\ Len(stash[self]) > Z[self]

\* C3: subtree-correctness. Between two accesses, every block held by bucket
\* (lv, idx) has its current position leaf below that node:
\* position[bid] >> (L - lv) = idx.
C3_Subtree ==
    \A e \in made :
        Quiescent(e) =>
            \A lv \in 0..L[e] : \A idx \in 0..(Pow2(lv) - 1) :
                LET bucket == tree[e][Pow2(lv) - 1 + idx]
                IN  \A i \in 1..Len(bucket) :
                        position[e][bucket[i][1]] \div Pow2(L[e] - lv) = idx

\* the accessed block got a new leaf other than x and was evicted below the root
C3_Witness ==
    /\ pc = "returned" /\ call[1] = "access" /\ ret[1] = "return"
    /\ position[self][a] # x
    /\ \E p \in TreePlaces(tree[self], a) : p[1] > 0

\* C4: read/write correctness. A read of block a returns the value of the last
\* write to a, whatever accesses to other blocks came in between.
C4_ReadWrite ==
    (AccessDone /\ op = "read" /\ written[self][a] # <<>>) =>
        /\ old_data = written[self][a][1]
        /\ pc = "returned" => ret[2] = written[self][a][1]

\* a read of a returned what was written to a before a later write to another block
C4_Witness ==
    /\ pc = "returned" /\ call[1] = "access" /\ ret[1] = "return"
    /\ op = "read"
    /\ written[self][a] # <<>>
    /\ \E b \in 0..(N[self] - 1) :
           b # a /\ written[self][b] # <<>> /\ written[self][b][2] > written[self][a][2]

\* C5: the engine refines an array M of N cells with M[a] = a at first, M[a]
\* being the data stored with block a wherever it is: an access returns M[a]
\* as it was before the call, a write sets M[a] and no other cell, a read
\* changes no cell.
C5_Refinement ==
    /\ (pc = "returned" /\ call[1] = "__init__" /\ ret[1] = "return") =>
           \A b \in 0..(N[self] - 1) : DataIn(tree[self], stash[self], b) = {<<b>>}
    /\ AccessDone =>
           /\ DataIn(pre.tree, pre.stash, a) = {old_data}
           /\ pc = "returned" => ret[2] = old_data
           /\ \A b \in 0..(N[self] - 1) :
                  DataIn(tree[self], stash[self], b) =
                      IF b = a /\ op = "write" THEN {new_data}
                      ELSE DataIn(pre.tree, pre.stash, b)

\* a write returned a value written before, other than the value it wrote
C5_Witness ==
    /\ pc = "returned" /\ call[1] = "access" /\ ret[1] = "return"
    /\ op = "write"
    /\ ret[2] # <<a>>
    /\ ret[2] # new_data

\* the observed engines e1 and e2 were given the same calls: constructed with
\* the same (N, Z, L, seed), a seed that is not None, and then the same operations
SameCalls(e1, e2) ==
    /\ Len(obs[e1]) >= 1
    /\ Len(obs[e1]) = Len(obs[e2])
    /\ \A i \in 1..Len(obs[e1]) :
           /\ obs[e1][i].call.fn = obs[e2][i].call.fn
           /\ obs[e1][i].call.args = obs[e2][i].call.args
    /\ obs[e1][1].call.args[4] # None

\* C6: idempotent construction. Two engines constructed with the same
\* (N, Z, L, seed) and given the same operation sequence return the same values
\* and end with stashes of the same size.
C6_SameSeedSameRun ==
    \A e1 \in DOMAIN obs : \A e2 \in DOMAIN obs :
        (pc = "idle" /\ SameCalls(e1, e2)) =>
            /\ \A i \in 1..Len(obs[e1]) : obs[e1][i].ret = obs[e2][i].ret
            /\ obs[e1][Len(obs[e1])].size = obs[e2][Len(obs[e2])].size

\* C7: instance independence of the random source. What an engine draws and
\* the stash sizes it sees after each of its calls depend on its own
\* (N, Z, L, seed) and its own calls only: two engines with the same of both
\* drew the same leaves and saw the same sizes, whatever was done to other
\* engines in between.
C7_OwnRunOnly ==
    \A e1 \in DOMAIN obs : \A e2 \in DOMAIN obs :
        (pc = "idle" /\ SameCalls(e1, e2)) =>
            \A i \in 1..Len(obs[e1]) :
                /\ obs[e1][i].drawn = obs[e2][i].drawn
                /\ obs[e1][i].size = obs[e2][i].size

\* C8: the address trace. The buckets an access fetches are exactly the L+1
\* buckets on the path to the leaf the accessed block had before the access:
\* a set fixed by the state before the call and the block id, the same for a
\* read and for a write of any data.
C8_Trace ==
    AccessDone =>
        /\ trace = {Pow2(lv) - 1 + (pre.position[a] \div Pow2(L[self] - lv)) : lv \in 0..L[self]}
        /\ Cardinality(trace) = L[self] + 1

\* a write returned after fetching the three buckets of a path that does not end at leaf 0
C8_Witness ==
    /\ pc = "returned" /\ call[1] = "access" /\ ret[1] = "return"
    /\ op = "write"
    /\ pre.position[a] # 0
    /\ Cardinality(trace) = 3

\* C9: construction fails exactly when N <= 0, Z <= 0, L < 1 or 2^L < N, and a
\* failed construction has created no tree, position map or stash, and has
\* neither reseeded nor consumed the random source.
C9_Construct ==
    (pc = "returned" /\ call[1] = "__init__") =>
        LET n == call[3]
            z == call[4]
            l0 == call[5]
        IN  /\ ret[1] = "raise" <=> (n <= 0 \/ z <= 0 \/ l0 < 1 \/ Pow2(l0) < n)
            /\ ret[1] = "raise" =>
                   /\ self \notin made
                   /\ tree[self] = <<>> /\ position[self] = <<>> /\ stash[self] = <<>>
                   /\ rng = pre.rng /\ memo = pre.memo /\ drawn = <<>>

\* a construction with a seed failed only because 2^L < N
C9_Witness ==
    /\ pc = "returned" /\ call[1] = "__init__" /\ ret[1] = "raise"
    /\ call[6] # None
    /\ call[3] > 0 /\ call[4] > 0 /\ call[5] >= 1

\* C10: contract violations fail fast. access raises exactly when the block id
\* is outside [0, N) or op is neither "read" nor "write", simulate exactly when
\* total_ops <= warmup_ops or warmup_ops < 0, and a call that raised left the
\* tree, the position map, the stash and the random source as they were.
C10_FailFast ==
    (pc = "returned" /\ call[1] \in {"access", "simulate"}) =>
        LET bad == IF call[1] = "access"
                   THEN call[4] < 0 \/ call[4] >= N[self] \/ call[3] \notin {"read", "write"}
                   ELSE call[3] <= call[4] \/ call[4] < 0
        IN  /\ ret[1] = "raise" <=> bad
            /\ ret[1] = "raise" =>
                   /\ tree[self] = pre.tree /\ position[self] = pre.position
                   /\ stash[self] = pre.stash
                   /\ rng = pre.rng /\ memo = pre.memo /\ drawn = <<>> /\ trace = {}

\* an access with a negative block id raised on an engine with blocks in the stash
C10_Witness ==
    /\ pc = "returned" /\ call[1] = "access" /\ ret[1] = "raise"
    /\ call[4] < 0
    /\ stash[self] # <<>>

\* simulate has returned its result
SimulateDone == pc = "returned" /\ call[1] = "simulate" /\ ret[1] = "return"

\* C11: strict tail count. simulate returns max_stash, the largest recorded
\* size, and tail_counts with the keys 0..max_stash, tail_counts[i] being the
\* number of recorded samples strictly greater than i: tail_counts[max_stash]
\* is 0, tail_counts is non-increasing and tail_counts[0] <= S.
C11_StrictTail ==
    SimulateDone =>
        LET rec == sim.recorded_stash_sizes
            tail_counts == ret[2][1]
            max_stash == ret[2][2]
            s == ret[2][3]
        IN  /\ \E j \in 1..Len(rec) : rec[j] = max_stash
            /\ \A j \in 1..Len(rec) : rec[j] <= max_stash
            /\ DOMAIN tail_counts = 0..max_stash
            /\ \A i \in 0..max_stash :
                   tail_counts[i] = Cardinality({j \in 1..Len(rec) : rec[j] > i})
            /\ tail_counts[max_stash] = 0
            /\ \A i \in 0..(max_stash - 1) : tail_counts[i] >= tail_counts[i + 1]
            /\ s = Len(rec)
            /\ tail_counts[0] <= s

\* the tail counts of sizes that are not all equal, with samples of size 0:
\* they fall strictly from threshold 0 to 1, and tail_counts[0] < S
C11_Witness ==
    /\ SimulateDone
    /\ ret[2][2] >= 2
    /\ ret[2][1][0] > ret[2][1][1]
    /\ ret[2][1][1] > 0
    /\ ret[2][1][0] < ret[2][3]

\* C12: the loop of simulate. simulate makes exactly total_ops accesses, the
\* one with index t to block t mod N, and records the stash size after the
\* accesses with t >= warmup_ops and after no other, so S = total_ops -
\* warmup_ops; a recorded sample is the size of the stash as the access left it.
C12_Loop ==
    (call[1] = "simulate" /\ ret[1] # "raise" /\ pc # "idle") =>
        LET t == sim.t
            rec == sim.recorded_stash_sizes
            inAccess == pc \in {"service", "evict", "simrec"}
        IN  /\ nops[self] = IF inAccess THEN t + 1 ELSE t
            /\ inAccess => a = t % N[self]
            /\ Len(rec) = IF t > sim.warmup_ops THEN t - sim.warmup_ops ELSE 0
            /\ pc \in {"sim", "service", "evict", "simrec"} => t < sim.total_ops
            /\ pc \in {"simpost", "returned"} => t = sim.total_ops
            /\ (pc \in {"sim", "simpost", "returned"} /\ t > sim.warmup_ops) =>
                   rec[Len(rec)] = Len(stash[self])
            /\ pc = "returned" => ret[2][3] = sim.total_ops - sim.warmup_ops

\* a simulate of three operations over two blocks, the first not recorded,
\* returned S = 2 with a recorded stash that was not empty
C12_Witness ==
    /\ SimulateDone
    /\ sim.total_ops = 3 /\ sim.warmup_ops = 1
    /\ N[self] = 2
    /\ ret[2][3] = 2
    /\ ret[2][2] >= 1

\* C13: the statistics file. With a record_file, simulate writes max_stash + 2
\* lines, "-1,S" and then "i,tail_counts[i]" for i = 0, ..., max_stash in this
\* order, and read_simulation_file gets S and the tail counts simulate
\* returned back from them.
C13_FileRoundTrip ==
    (SimulateDone /\ sim.record_file # None) =>
        LET tail_counts == ret[2][1]
            max_stash == ret[2][2]
            s == ret[2][3]
            lines == Lines(out_file)
            read == read_simulation_file(out_file)
        IN  /\ Len(lines) = max_stash + 2
            /\ Concat(lines) = out_file
            /\ lines[1] = <<"-", "1", ",">> \o Str(s) \o <<"\n">>
            /\ \A i \in 0..max_stash :
                   lines[i + 2] = Str(i) \o <<",">> \o Str(tail_counts[i]) \o <<"\n">>
            /\ read[1] = "return"
            /\ read[2][1] = s
            /\ KeySet(read[2][2]) = DOMAIN tail_counts
            /\ Len(read[2][2]) = max_stash + 1
            /\ \A i \in DOMAIN tail_counts : DictGet(read[2][2], i, None) = tail_counts[i]

\* a file with thresholds, counts and a total of two digits was written
C13_Witness ==
    /\ SimulateDone
    /\ sim.record_file # None
    /\ out_file # None
    /\ ret[2][2] >= 10
    /\ ret[2][1][0] >= 10
    /\ ret[2][3] >= 10

\* the flat indices of the buckets on the path from the root to leaf, for a
\* tree of depth l_: at level lv the bucket leaf >> (l_ - lv)
PathTo(l_, leaf) == {Pow2(lv) - 1 + (leaf \div Pow2(l_ - lv)) : lv \in 0..l_}

\* the path read of the running access is done and nothing else of it
AfterPathRead == pc = "service"

\* C14: path-read completeness. After the path read and before the eviction,
\* every bucket on the path to the old leaf x is empty, every pair those
\* buckets held is in the stash with its data, and what the stash held before
\* is still there, unchanged.
C14_PathRead ==
    AfterPathRead =>
        LET path == PathTo(L[self], pre.position[a])
        IN  /\ \A n \in path : tree[self][n] = <<>>
            /\ \A n \in path : \A i \in 1..Len(pre.tree[n]) :
                   /\ Has(stash[self], pre.tree[n][i][1])
                   /\ DictGet(stash[self], pre.tree[n][i][1], None) = pre.tree[n][i][2]
            /\ \A j \in 1..Len(pre.stash) :
                   j <= Len(stash[self]) /\ stash[self][j] = pre.stash[j]
            /\ KeySet(stash[self]) =
                   KeySet(pre.stash) \cup
                   UNION {{pre.tree[n][i][1] : i \in 1..Len(pre.tree[n])} : n \in path}

\* a path read that found a block in the stash and moved another one in from a
\* bucket of the path
C14_Witness ==
    /\ AfterPathRead
    /\ pre.stash # <<>>
    /\ \E n \in PathTo(L[self], x) : pre.tree[n] # <<>>
    /\ Len(stash[self]) > Len(pre.stash)

\* C15: once the path read has finished the accessed block is in the stash: it
\* was in the stash already or in a bucket on the path to its old leaf, so
\* stash.get(a, a) never falls back on its default.
C15_InStash ==
    AfterPathRead =>
        /\ Has(stash[self], a)
        /\ \/ Has(pre.stash, a)
           \/ \E n \in PathTo(L[self], pre.position[a]) :
                  \E i \in 1..Len(pre.tree[n]) : pre.tree[n][i][1] = a

\* the path read found the accessed block, written before, in the leaf bucket
C15_Witness ==
    /\ AfterPathRead
    /\ ~Has(pre.stash, a)
    /\ \E i \in 1..Len(pre.tree[Pow2(L[self]) - 1 + x]) :
           /\ pre.tree[Pow2(L[self]) - 1 + x][i][1] = a
           /\ pre.tree[Pow2(L[self]) - 1 + x][i][2] # <<a>>

\* an access is past its path read, or has just returned to its caller
InAccess == pc \in {"service", "evict"} \/ AccessDone

\* C16: resample ordering. The path an access reads, clears and evicts to is
\* the path to the leaf position[a] held before the access, not the leaf just
\* drawn; position[a] is replaced on every access, a read as well as a write,
\* by the leaf drawn, a leaf in [0, 2^L); and the eviction places a by its new
\* leaf: a ends in a bucket that is on the path to the new leaf as well, and
\* stays in the stash only if every bucket the two paths share is full.
C16_Resample ==
    /\ \A e \in made : \A b \in 0..(N[e] - 1) :
           position[e][b] \in 0..(Pow2(L[e]) - 1)
    /\ InAccess =>
           LET old == pre.position[a]
               new == position[self][a]
               shared == PathTo(L[self], old) \cap PathTo(L[self], new)
           IN  /\ x = old
               /\ trace \subseteq PathTo(L[self], old)
               /\ drawn # <<>> /\ new = drawn[Len(drawn)]
               /\ \A b \in 0..(N[self] - 1) : b # a => position[self][b] = pre.position[b]
               /\ AccessDone =>
                      /\ trace = PathTo(L[self], old)
                      /\ \A p \in TreePlaces(tree[self], a) : p[1] \in shared
                      /\ Has(stash[self], a) =>
                             \A n \in shared : Len(tree[self][n]) = Z[self]

\* a read gave the block a new leaf other than the old one, and the block
\* stayed in the stash although the path read and evicted to ends at its old leaf
C16_Witness ==
    /\ pc = "returned" /\ call[1] = "access" /\ ret[1] = "return"
    /\ op = "read"
    /\ position[self][a] # x
    /\ Has(stash[self], a)
    /\ tree[self][Pow2(L[self]) - 1 + x] # <<>>

\* C17: the frame of an access. An access to block a with old leaf x leaves
\* as they were: every bucket off the path to x (same pairs, same order), the
\* position of every block but a, the data of every block but a, the
\* parameters N, Z and L, and, when it is a read, the data of a.
C17_Frame ==
    InAccess =>
        /\ \A n \in (DOMAIN tree[self]) \ PathTo(L[self], pre.position[a]) :
               tree[self][n] = pre.tree[n]
        /\ DOMAIN tree[self] = DOMAIN pre.tree
        /\ \A b \in 0..(N[self] - 1) :
               b # a =>
                   /\ position[self][b] = pre.position[b]
                   /\ DataIn(tree[self], stash[self], b) = DataIn(pre.tree, pre.stash, b)
        /\ <<N[self], Z[self], L[self]>> = pre.params
        /\ (op = "read" \/ pc = "service") =>
               DataIn(tree[self], stash[self], a) = DataIn(pre.tree, pre.stash, a)

\* a write returned, and a bucket off the path it used holds a block with
\* data written earlier
C17_Witness ==
    /\ pc = "returned" /\ call[1] = "access" /\ ret[1] = "return"
    /\ op = "write"
    /\ \E n \in (DOMAIN tree[self]) \ PathTo(L[self], x) :
           \E i \in 1..Len(tree[self][n]) : tree[self][n][i][2] # <<tree[self][n][i][1]>>

\* C18: greedy eviction is maximal on the accessed path. After an access with
\* old leaf x, a bucket of the path to x that holds fewer than Z blocks has no
\* block left in the stash whose position leaf is below it: what stays in the
\* stash found every bucket of the path it could go to full.
C18_Maximal ==
    AccessDone =>
        \A lv \in 0..L[self] :
            LET n == Pow2(lv) - 1 + (x \div Pow2(L[self] - lv))
            IN  Len(tree[self][n]) < Z[self] =>
                    \A b \in KeySet(stash[self]) :
                        position[self][b] \div Pow2(L[self] - lv) # x \div Pow2(L[self] - lv)

\* an access left a block in the stash and a bucket of its path with room
C18_Witness ==
    /\ pc = "returned" /\ call[1] = "access" /\ ret[1] = "return"
    /\ stash[self] # <<>>
    /\ \E n \in PathTo(L[self], x) : Len(tree[self][n]) < Z[self]

\* C19: between two accesses, a stash that is not empty comes with a root
\* bucket of exactly Z blocks; so with N <= Z the stash is empty between
\* accesses and every stash size simulate records is 0.
C19_RootFull ==
    \A e \in made :
        Quiescent(e) =>
            /\ stash[e] # <<>> => Len(tree[e][0]) = Z[e]
            /\ N[e] <= Z[e] =>
                   /\ stash[e] = <<>>
                   /\ (self = e /\ call[1] = "simulate") =>
                          \A i \in 1..Len(sim.recorded_stash_sizes) :
                              sim.recorded_stash_sizes[i] = 0

\* the second access or a later one returned with a block in the stash and the root full
C19_Witness ==
    /\ pc = "returned" /\ call[1] = "access" /\ ret[1] = "return"
    /\ nops[self] >= 2
    /\ stash[self] # <<>>
    /\ Len(tree[self][0]) = Z[self]

\* C20: initial placement. Each step of _initial_place_blocks stores the next
\* block a with its own id as data in the deepest bucket on the path to
\* position[a] that has fewer than Z blocks at that moment, and in the stash
\* only if the L+1 buckets of that path are all full; when construction
\* returns, every block in the stash has a path of full buckets, and every
\* block is stored with its own id as data.
C20_Placement ==
    [][pc = "place" =>
          LET b == Head(order)
              node(lv) == Pow2(lv) - 1 + (position[self][b] \div Pow2(L[self] - lv))
              rooms == {lv \in 0..L[self] : Len(tree[self][node(lv)]) < Z[self]}
              deepest == CHOOSE lv \in rooms : \A o \in rooms : o <= lv
          IN  /\ IF rooms # {}
                 THEN /\ tree'[self] = [tree[self] EXCEPT ![node(deepest)] =
                                                             Append(@, <<b, <<b>>>>)]
                      /\ stash'[self] = stash[self]
                 ELSE /\ tree'[self] = tree[self]
                      /\ stash'[self] = Append(stash[self], <<b, <<b>>>>)
              /\ position' = position
              /\ pc' = "returned" =>
                     /\ \A c \in KeySet(stash'[self]) :
                            \A n \in PathTo(L[self], position[self][c]) :
                                Len(tree'[self][n]) = Z[self]
                     /\ \A c \in 0..(N[self] - 1) :
                            DataIn(tree'[self], stash'[self], c) = {<<c>>}
      ]_vars

\* construction returned with a block in the stash of a tree of depth 2
C20_Witness ==
    /\ pc = "returned" /\ call[1] = "__init__" /\ ret[1] = "return"
    /\ stash[self] # <<>>
    /\ L[self] = 2

====
